---- MODULE Spec2Model ----
(***************************************************************************)
(* Bank-statement pipeline: text extraction cascade, transaction analyzer  *)
(* with JSON repair, persistence of the analysis, and the dashboard        *)
(* renderer.  Modelled from src/lambda/bankextract-package and             *)
(* src/lambda/visualize-package.                                           *)
(***************************************************************************)
EXTENDS Integers, Sequences, FiniteSets, TLC

VARIABLES
    doc,          \* SpecExtract: the stored document textract_from_s3 is called on
    ex,           \* SpecExtract: outcome of the textract_from_s3 call
    text,         \* SpecAnalyze: the argument of banktract_from_text
    response,     \* SpecAnalyze: what bedrock invoke_model produces
    analysis,     \* SpecAnalyze: outcome of the banktract_from_text call
    statements,   \* the bank_statements table
    transactions, \* the transactions table: a bag of committed rows
    last_save,    \* per statement, the rows inserted by its latest committed save
    clock,        \* CURRENT_TIMESTAMP of the database
    proc,         \* the local state of each process_s3_upload invocation
    triggers,     \* the Stage-3 trigger messages sent so far
    runs,         \* number of invocations started
    dash_req,     \* SpecDash: the statement_id asked for, and the database step that fails
    dash,         \* SpecDash: outcome of the create_dashboard_html call
    event,        \* SpecVisual: the event the Stage-3 lambda_handler is invoked with
    visual,       \* SpecVisual: outcome of the Stage-3 lambda_handler
    bucket,       \* the dashboard objects in storage, as a set of [key, html]
    objects,      \* SpecOwner, SpecWeb: the statement objects in storage, in upload order
    owner,        \* SpecOwner: the owner process_s3_upload resolves for objects[1]
    listing,      \* SpecWeb: outcome of the dashboards query
    handler       \* SpecBatch: the Stage-2 lambda_handler: its event and its position

extractVars == <<doc, ex>>

analyzeVars == <<text, response, analysis>>

visualVars == <<event, visual, bucket>>

dashVars == <<dash_req, dash, visualVars>>

webVars == <<objects, owner, listing>>

dbVars == <<statements, transactions, last_save, clock>>

pipeVars == <<proc, triggers, runs, handler>>

vars ==
    << doc, ex, text, response, analysis, statements, transactions, last_save, clock,
       proc, triggers, runs, dash_req, dash, event, visual, bucket, objects, owner, listing,
       handler >>

(***************************************************************************)
(* Text.  A Python str is modelled by its length and by how many of its    *)
(* characters are leading/trailing whitespace, so that str.strip() and     *)
(* len() are computed and not assumed.                                     *)
(***************************************************************************)
Text(n, p) == [len |-> n, pad |-> p]

EmptyText == Text(0, 0)

\* str.strip()
Strip(t) == Text(t.len - t.pad, 0)

\* Python truthiness of a str
Truthy(t) == t.len > 0

\* 20 * 1024 * 1024
SizeCeiling == 20971520

SufficiencyThreshold == 50

MinTextLen == 10

\* What a text-extraction library call produces: an exception (or the
\* library being unavailable), or the concatenated page text.
Raised == [ok |-> FALSE, len |-> 0, pad |-> 0]

Produced(t) == [ok |-> TRUE, len |-> t.len, pad |-> t.pad]

RawTexts ==
    { Text(0, 0), Text(2, 2), Text(9, 0), Text(20, 0), Text(51, 2),
      Text(50, 0), Text(62, 2) }

LibOutcomes == {Raised} \cup { Produced(t) : t \in RawTexts }

\* extract_with_pdfplumber: "" when unavailable or on any exception,
\* text.strip() otherwise
extract_with_pdfplumber(o) == IF o.ok THEN Strip(Text(o.len, o.pad)) ELSE EmptyText

\* extract_with_pypdf
extract_with_pypdf(o) == IF o.ok THEN Strip(Text(o.len, o.pad)) ELSE EmptyText

\* extract_with_textract
extract_with_textract(o) == IF o.ok THEN Strip(Text(o.len, o.pad)) ELSE EmptyText

\* `not text or len(text.strip()) < 50`
Insufficient(t) == ~Truthy(t) \/ Strip(t).len < SufficiencyThreshold

FileSizes == {0, 1, SizeCeiling, SizeCeiling + 1}

\* A stored document together with what each collaborator would answer
\* when asked about it.
Docs ==
    [ temp_ok     : BOOLEAN,
      download_ok : BOOLEAN,
      file_size   : FileSizes,
      plumber     : LibOutcomes,
      pypdf       : LibOutcomes,
      ocr         : LibOutcomes ]

\* The result of a textract_from_s3 call: the returned text and the
\* strategies invoked, in order.
Outcome(t, calls) == [text |-> t, calls |-> calls]

\* Variant of Cascade that falls through to OCR as soon as pdfplumber is
\* insufficient.
Cascade_SkipPypdf(d) ==
    LET t1 == extract_with_pdfplumber(d.plumber)
    IN  IF Insufficient(t1)
        THEN Outcome(extract_with_textract(d.ocr), <<"pdfplumber", "textract">>)
        ELSE Outcome(t1, <<"pdfplumber">>)

\* lines 146-152: the cascade over the local copy
Cascade(d) ==
    LET t1 == extract_with_pdfplumber(d.plumber)
        c1 == <<"pdfplumber">>
        run2 == Insufficient(t1)
        t2 == IF run2 THEN extract_with_pypdf(d.pypdf) ELSE t1
        c2 == IF run2 THEN Append(c1, "pypdf") ELSE c1
        run3 == Insufficient(t2)
        t3 == IF run3 THEN extract_with_textract(d.ocr) ELSE t2
        c3 == IF run3 THEN Append(c2, "textract") ELSE c2
    IN  Outcome(IF Truthy(t3) THEN t3 ELSE EmptyText, c3)

\* lines 136-154: the try block and its except clause.  temp_ok = FALSE is
\* NamedTemporaryFile raising, download_ok = FALSE is download_file raising.
TryBlock(d) ==
    IF ~d.temp_ok \/ ~d.download_ok
    THEN Outcome(EmptyText, <<>>)
    ELSE IF d.file_size = 0 \/ d.file_size > SizeCeiling
         THEN IF d.file_size > 0
              THEN Outcome(extract_with_textract(d.ocr), <<"textract">>)
              ELSE Outcome(EmptyText, <<>>)
         ELSE Cascade(d)

\* Variant of Cleanup that leaves the file alone.
Cleanup_Skipped(path_set, exists) == exists

\* lines 155-160: whether the local copy exists after the finally clause.
\* os.unlink of a file the call created itself is taken to succeed.
Cleanup(path_set, exists) == IF path_set /\ exists THEN FALSE ELSE exists

\* textract_from_s3(bucket, key): the text returned, the strategies invoked
\* and whether the local copy made at lines 137-138 is left behind
textract_from_s3(d) ==
    [ text |-> TryBlock(d).text,
      calls |-> TryBlock(d).calls,
      temp_exists |-> Cleanup(d.temp_ok, d.temp_ok) ]

NotRun == [text |-> EmptyText, calls |-> <<"pending">>, temp_exists |-> FALSE]

(***************************************************************************)
(* Strings of the model response.  A response is a sequence of characters; *)
(* " " stands for any whitespace character (space, newline), "'" for the   *)
(* backquote of a markdown fence and "k" for an object member prefix       *)
(* (a quoted key followed by its colon).                                   *)
(***************************************************************************)
IsWs(c) == c = " "

RECURSIVE LStrip(_)
LStrip(s) == IF s # <<>> /\ IsWs(Head(s)) THEN LStrip(Tail(s)) ELSE s

RECURSIVE RStrip(_)
RStrip(s) ==
    IF s # <<>> /\ IsWs(s[Len(s)]) THEN RStrip(SubSeq(s, 1, Len(s) - 1)) ELSE s

\* str.strip()
StrStrip(s) == RStrip(LStrip(s))

\* str.startswith(p)
StartsWith(s, p) == Len(s) >= Len(p) /\ SubSeq(s, 1, Len(p)) = p

\* str.endswith(p)
EndsWith(s, p) == Len(s) >= Len(p) /\ SubSeq(s, Len(s) - Len(p) + 1, Len(s)) = p

\* s[n:]
DropFirst(s, n) == SubSeq(s, n + 1, Len(s))

\* s[:-n]
DropLast(s, n) == SubSeq(s, 1, Len(s) - n)

\* str.find(c): 0-based index of the first occurrence, -1 when absent
Find(s, c) ==
    IF \E i \in 1..Len(s) : s[i] = c
    THEN (CHOOSE i \in 1..Len(s) : s[i] = c /\ \A j \in 1..(i - 1) : s[j] # c) - 1
    ELSE -1

\* str.rfind(c): 0-based index of the last occurrence, -1 when absent
RFind(s, c) ==
    IF \E i \in 1..Len(s) : s[i] = c
    THEN (CHOOSE i \in 1..Len(s) : s[i] = c /\ \A j \in (i + 1)..Len(s) : s[j] # c) - 1
    ELSE -1

\* s[a:b] for non-negative a, b
Slice(s, a, b) == SubSeq(s, a + 1, IF b > Len(s) THEN Len(s) ELSE b)

Fence == <<"'", "'", "'">>

FenceJson == <<"'", "'", "'", "j", "s", "o", "n">>

(***************************************************************************)
(* json.loads on the character alphabet above.  A successful parse yields  *)
(* the value in canonical form (the text with insignificant whitespace     *)
(* removed); a failure is the JSONDecodeError the code catches.            *)
(***************************************************************************)
ParseFail == [ok |-> FALSE, next |-> 0, out |-> <<>>]

ParseOk(n, o) == [ok |-> TRUE, next |-> n, out |-> o]

RECURSIVE SkipWs(_, _)
SkipWs(s, i) == IF i <= Len(s) /\ IsWs(s[i]) THEN SkipWs(s, i + 1) ELSE i

RECURSIVE ParseNumber(_, _, _)
ParseNumber(s, i, acc) ==
    IF i <= Len(s) /\ s[i] = "1"
    THEN ParseNumber(s, i + 1, Append(acc, "1"))
    ELSE ParseOk(i, acc)

RECURSIVE ParseValue(_, _)
RECURSIVE ParseElements(_, _, _)
RECURSIVE ParseMembers(_, _, _)

\* elements of an array, the first of them starting at i
ParseElements(s, i, acc) ==
    LET v == ParseValue(s, i)
        k == SkipWs(s, v.next)
    IN  IF ~v.ok \/ k > Len(s) THEN ParseFail
        ELSE IF s[k] = "," THEN ParseElements(s, SkipWs(s, k + 1), acc \o v.out \o <<",">>)
        ELSE IF s[k] = "]" THEN ParseOk(k + 1, acc \o v.out \o <<"]">>)
        ELSE ParseFail

\* members of an object, the first of them starting at i
ParseMembers(s, i, acc) ==
    IF i > Len(s) \/ s[i] # "k" THEN ParseFail
    ELSE LET v == ParseValue(s, SkipWs(s, i + 1))
             k == SkipWs(s, v.next)
         IN  IF ~v.ok \/ k > Len(s) THEN ParseFail
             ELSE IF s[k] = ","
                  THEN ParseMembers(s, SkipWs(s, k + 1), acc \o <<"k">> \o v.out \o <<",">>)
             ELSE IF s[k] = "}" THEN ParseOk(k + 1, acc \o <<"k">> \o v.out \o <<"}">>)
             ELSE ParseFail

ParseValue(s, i) ==
    IF i > Len(s) THEN ParseFail
    ELSE IF s[i] = "1" THEN ParseNumber(s, i, <<>>)
    ELSE IF s[i] = "["
         THEN LET j == SkipWs(s, i + 1)
              IN  IF j <= Len(s) /\ s[j] = "]" THEN ParseOk(j + 1, <<"[", "]">>)
                  ELSE ParseElements(s, j, <<"[">>)
    ELSE IF s[i] = "{"
         THEN LET j == SkipWs(s, i + 1)
              IN  IF j <= Len(s) /\ s[j] = "}" THEN ParseOk(j + 1, <<"{", "}">>)
                  ELSE ParseMembers(s, j, <<"{">>)
    ELSE ParseFail

\* json.loads(s): [ok, value]; ok = FALSE is the exception
json_loads(s) ==
    LET v == ParseValue(s, SkipWs(s, 1))
    IN  IF v.ok /\ SkipWs(s, v.next) > Len(s)
        THEN [ok |-> TRUE, value |-> v.out]
        ELSE [ok |-> FALSE, value |-> <<>>]

(***************************************************************************)
(* banktract_from_text                                                     *)
(***************************************************************************)
\* line 164: the result of the short-text guard
GuardResult ==
    [ transactions |-> <<>>,
      analysis |-> [ total_income |-> 0, total_expense |-> 0, net_amount |-> 0,
                     categories |-> <<>> ] ]

\* line 237: the result substituted for any exception
ErrorResult ==
    [ transactions |-> <<>>,
      analysis |-> [ total_income |-> 0, total_expense |-> 0, net_amount |-> 0,
                     categories |-> <<>>, categories_amount |-> <<>> ] ]

\* the value json.loads returned
Parsed(v) == [json |-> v]

\* lines 221-226: fence removal
StripFence(s) ==
    LET a == IF StartsWith(s, FenceJson) THEN DropFirst(s, 7)
             ELSE IF StartsWith(s, Fence) THEN DropFirst(s, 3)
             ELSE s
    IN  IF EndsWith(a, Fence) THEN DropLast(a, 3) ELSE a

\* lines 219-237 for a response whose text is `body`
RepairAndParse(body) ==
    LET analysis_result_text == StripFence(StrStrip(body))
        start_idx == Find(analysis_result_text, "{")
        end_idx == RFind(analysis_result_text, "}") + 1
        r == IF start_idx # -1 /\ end_idx # -1
             THEN json_loads(Slice(analysis_result_text, start_idx, end_idx))
             ELSE json_loads(analysis_result_text)
    IN  IF r.ok THEN Parsed(r.value) ELSE ErrorResult

\* What bedrock invoke_model does: raises, or answers with a text.
ModelRaises == [raises |-> TRUE, fenced |-> FALSE, tag |-> <<>>, sep |-> <<>>, j |-> <<>>]

ModelAnswers(fenced, tag, sep, j) ==
    [raises |-> FALSE, fenced |-> fenced, tag |-> tag, sep |-> sep, j |-> j]

\* the text of an answer: j, bare or inside a markdown fence
ResponseBody(r) ==
    IF r.fenced THEN Fence \o r.tag \o r.sep \o r.j \o r.sep \o Fence ELSE r.j

\* Variant of banktract_from_text without the short-text guard.
banktract_from_text_Unguarded(t, r) ==
    [ result |-> IF r.raises THEN ErrorResult ELSE RepairAndParse(ResponseBody(r)),
      model_calls |-> 1 ]

\* banktract_from_text(text) when the model behaves as r: the returned
\* value and the number of invoke_model calls made
banktract_from_text(t, r) ==
    IF ~Truthy(t) \/ Strip(t).len < MinTextLen
    THEN [result |-> GuardResult, model_calls |-> 0]
    ELSE [ result |-> IF r.raises THEN ErrorResult ELSE RepairAndParse(ResponseBody(r)),
           model_calls |-> 1 ]

NotAnalyzed == [done |-> FALSE, result |-> GuardResult, model_calls |-> 0]

(***************************************************************************)
(* The bank_statements table and the analysis summaries stored in it.      *)
(* A row's statement_id is its index in the table.                         *)
(***************************************************************************)
\* analysis_summary IS NULL
NullSummary ==
    [ null |-> TRUE, totals_ok |-> TRUE, total_income |-> 0, total_expense |-> 0,
      net_amount |-> 0, transaction_count |-> 0, categories |-> {},
      categories_amount |-> <<>> ]

\* A stored summary.  totals_ok = FALSE is a summary whose total_income is
\* not a number; categories_amount lists the mapping's items in key order.
Summary(ok, inc, exp, cnt, cats, camt) ==
    [ null |-> FALSE, totals_ok |-> ok, total_income |-> inc, total_expense |-> exp,
      net_amount |-> inc + exp, transaction_count |-> cnt, categories |-> cats,
      categories_amount |-> camt ]

\* One item of categories_amount.  kind "num": data is a mapping with a
\* numeric total_amount; "null": total_amount is null; "nondict": data is
\* not a mapping.
Entry(c, k, a) == [category |-> c, kind |-> k, amount |-> a, count |-> 1]

Row(u, k, st, at, sm) ==
    [ user_id |-> u, s3_key |-> k, process_status |-> st, created_at |-> at,
      analysis_summary |-> sm ]

(***************************************************************************)
(* extract_data_from_statements                                            *)
(***************************************************************************)
Abs(n) == IF n < 0 THEN -n ELSE n

IndexOf(totals, c) ==
    IF \E i \in 1..Len(totals) : totals[i].category = c
    THEN CHOOSE i \in 1..Len(totals) : totals[i].category = c
    ELSE 0

\* lines 189-200: merge the items of one summary into category_totals; stops
\* at the first item that raises, keeping what was merged before it
RECURSIVE MergeEntries(_, _)
MergeEntries(totals, entries) ==
    IF entries = <<>> THEN totals
    ELSE LET e == Head(entries)
             i == IndexOf(totals, e.category)
         IN  IF e.kind = "nondict" THEN totals
             ELSE IF i = 0
                  THEN MergeEntries(
                         Append(totals, [ category |-> e.category, isnull |-> e.kind = "null",
                                          amount |-> e.amount, count |-> e.count ]),
                         Tail(entries))
             ELSE IF e.kind = "null" \/ totals[i].isnull THEN totals
             ELSE MergeEntries(
                    [totals EXCEPT ![i].amount = @ + e.amount, ![i].count = @ + e.count],
                    Tail(entries))

NoData ==
    [ total_income |-> 0, total_expense |-> 0, net_amount |-> 0, total_transactions |-> 0,
      category_totals |-> <<>> ]

\* lines 176-203: one iteration of the loop over the statements
AddSummary(acc, sm) ==
    IF sm.null \/ ~sm.totals_ok THEN acc
    ELSE [ total_income |-> acc.total_income + sm.total_income,
           total_expense |-> acc.total_expense + sm.total_expense,
           net_amount |-> acc.net_amount + sm.net_amount,
           total_transactions |-> acc.total_transactions + sm.transaction_count,
           category_totals |-> MergeEntries(acc.category_totals, sm.categories_amount) ]

RECURSIVE Accumulate(_, _)
Accumulate(acc, sms) ==
    IF sms = <<>> THEN acc ELSE Accumulate(AddSummary(acc, Head(sms)), Tail(sms))

\* the sort key of an item of categories_data
SortKey(x, signed) == IF signed THEN x.amount ELSE Abs(x.amount)

\* insertion of x into a sequence sorted by descending key, after every
\* element whose key is not smaller
RECURSIVE InsertDesc(_, _, _)
InsertDesc(sorted, x, signed) ==
    IF sorted = <<>> THEN <<x>>
    ELSE IF SortKey(Head(sorted), signed) < SortKey(x, signed) THEN <<x>> \o sorted
    ELSE <<Head(sorted)>> \o InsertDesc(Tail(sorted), x, signed)

\* list.sort(key=..., reverse=True): stable, descending
RECURSIVE StableSortDesc(_, _, _)
StableSortDesc(done, todo, signed) ==
    IF todo = <<>> THEN done
    ELSE StableSortDesc(InsertDesc(done, Head(todo), signed), Tail(todo), signed)

\* Variant of SortCategories that sorts by the signed amount.
SortCategories_Signed(categories_data) == StableSortDesc(<<>>, categories_data, TRUE)

\* line 210: categories_data.sort(key=lambda x: abs(x[1]), reverse=True)
SortCategories(categories_data) == StableSortDesc(<<>>, categories_data, FALSE)

\* extract_data_from_statements for the summaries sms: raised = TRUE is the
\* TypeError of abs(None) leaving the function
extract_data_from_statements(sms) ==
    LET acc == Accumulate(NoData, sms)
        bad == \E i \in 1..Len(acc.category_totals) : acc.category_totals[i].isnull
    IN  [ raised |-> bad,
          total_income |-> acc.total_income,
          total_expense |-> acc.total_expense,
          net_amount |-> acc.net_amount,
          total_transactions |-> acc.total_transactions,
          categories_data |-> IF bad THEN <<>> ELSE SortCategories(acc.category_totals) ]

(***************************************************************************)
(* create_dashboard_html                                                   *)
(***************************************************************************)
\* LIMIT of the second query
OtherLimit == 5

\* ORDER BY created_at DESC over the rows ids of table tb
RECURSIVE NewestFirst(_, _)
NewestFirst(tb, ids) ==
    IF ids = {} THEN <<>>
    ELSE LET m == CHOOSE i \in ids : \A j \in ids : tb[j].created_at <= tb[i].created_at
         IN  <<m>> \o NewestFirst(tb, ids \ {m})

FirstN(s, n) == SubSeq(s, 1, IF Len(s) < n THEN Len(s) ELSE n)

\* lines 117-125: the other statements of the same user
OtherStatements(tb, sid) ==
    FirstN(NewestFirst(tb, { i \in 1..Len(tb) :
                               /\ tb[i].user_id = tb[sid].user_id
                               /\ ~tb[i].analysis_summary.null
                               /\ i # sid }),
           OtherLimit)

DefaultDashboard == [kind |-> "default", all_statements |-> <<>>, data |-> NoData]

Raising == [kind |-> "raised", all_statements |-> <<>>, data |-> NoData]

\* lines 100-128, the body of the try block.  fail names the database step
\* that raises, if any.
DashboardBody(tb, sid, fail) ==
    IF fail \in {"connect", "query1"} THEN Raising
    ELSE IF sid \notin 1..Len(tb) \/ tb[sid].analysis_summary.null THEN DefaultDashboard
    ELSE IF fail = "query2" THEN Raising
    ELSE LET all_statements == <<sid>> \o OtherStatements(tb, sid)
             data == extract_data_from_statements(
                        [i \in 1..Len(all_statements) |->
                            tb[all_statements[i]].analysis_summary])
         IN  IF data.raised THEN Raising
             ELSE [kind |-> "rendered", all_statements |-> all_statements, data |-> data]

\* Variant of create_dashboard_html without the except clause.
create_dashboard_html_NoExcept(tb, sid, fail) == DashboardBody(tb, sid, fail)

\* create_dashboard_html(statement_id) against table tb.  The close() calls
\* of the finally clause are taken not to raise: the driver swallows socket
\* errors on close, and the connection is closed nowhere else.
create_dashboard_html(tb, sid, fail) ==
    LET r == DashboardBody(tb, sid, fail)
    IN  IF r.kind = "raised" THEN DefaultDashboard ELSE r

DbFailures == {"none", "connect", "query1", "query2"}

(***************************************************************************)
(* The Stage-3 entry point: lambda_handler of the visualize package        *)
(***************************************************************************)
\* An event.  kind "nondict": the payload is not a JSON object.
\* trigger_source "absent": the key is missing.  statement_id -1: the key is
\* missing or null.
Event(k, ts, sid) == [kind |-> k, trigger_source |-> ts, statement_id |-> sid]

\* the event Stage 3 receives for a payload sent by Stage 2
EventOf(payload) == Event("dict", payload.trigger_source, payload.statement_id)

\* os.path.splitext(name)[0] on a file name spelled out in characters: the
\* name up to its last dot, unless only dots precede that dot
Stem(name) ==
    LET dot == RFind(name, ".") + 1
    IN  IF dot > 0 /\ \E i \in 1..(dot - 1) : name[i] # "."
        THEN SubSeq(name, 1, dot - 1)
        ELSE name

\* os.path.basename of a key given as its path segments
Basename(source_key) == IF source_key = <<>> THEN <<>> ELSE source_key[Len(source_key)]

\* Variant of build_dashboard_key without the dashboard/ prefix.
build_dashboard_key_NoPrefix(user_id, source_key) ==
    LET base == Stem(Basename(source_key))
    IN  <<user_id, (IF base = <<>> THEN <<"statement">> ELSE base) \o <<".html">>>>

\* build_dashboard_key(user_id, source_key), as path segments
build_dashboard_key(user_id, source_key) ==
    LET base == Stem(Basename(source_key))
    IN  <<"dashboard", user_id, (IF base = <<>> THEN <<"statement">> ELSE base) \o <<".html">>>>

\* what the handler answers and does: the status code, the number of
\* database connections it opened, the document it rendered ("none" when
\* create_dashboard_html was not called) and the objects it stored
Response(code, db, html, puts) ==
    [statusCode |-> code, db_calls |-> db, html |-> html, puts |-> puts]

\* lambda_handler(event, context) against table tb.  fail is the database
\* step of create_dashboard_html that raises, lookup_ok whether the query
\* of lines 40-49 succeeds, put_ok whether put_object succeeds.
visualize_lambda_handler(ev, tb, fail, lookup_ok, put_ok) ==
    IF ev.kind # "dict" THEN Response(500, 0, "none", {})
    ELSE IF ev.trigger_source # "bank_extract" THEN Response(400, 0, "none", {})
    ELSE IF ev.statement_id \in {-1, 0} THEN Response(400, 0, "none", {})
    ELSE LET sid == ev.statement_id
             dashboard_html == create_dashboard_html(tb, sid, fail).kind
         IN  IF ~lookup_ok THEN Response(500, 2, dashboard_html, {})
             ELSE IF sid \notin 1..Len(tb) THEN Response(404, 2, dashboard_html, {})
             ELSE Response(200, 2, dashboard_html,
                           IF put_ok
                           THEN {[ key |-> build_dashboard_key(tb[sid].user_id, tb[sid].s3_key),
                                   html |-> dashboard_html ]}
                           ELSE {})

(***************************************************************************)
(* What banktract_from_text hands to save_analysis_to_database: the value  *)
(* json.loads produced, described by the properties the code inspects.     *)
(***************************************************************************)
\* One element of the transactions list.  isdict = FALSE: not a mapping.
\* date "nonstr": a truthy value that is not a string, passed to the
\* database driver as it is.  amount "huge": an integer too large for
\* float().  category "absent": no category key.
Trans(isd, d, a, c) == [isdict |-> isd, date |-> d, amount |-> a, category |-> c]

\* the value under "transactions": a list, absent, null, or a number
TransList(items) == [kind |-> "list", items |-> items]

TransOther(k) == [kind |-> k, items |-> <<>>]

\* the value under "analysis": a mapping (its summary), absent, or not a
\* mapping
AnalysisDict(sm) == [kind |-> "dict", summary |-> sm]

AnalysisOther(k) == [kind |-> k, summary |-> NullSummary]

\* a JSON object
ResultDict(tx, an) == [kind |-> "dict", transactions |-> tx, analysis |-> an]

\* any other JSON value (a list, a number, a string, null)
ResultNonDict ==
    [kind |-> "nondict", transactions |-> TransOther("absent"), analysis |-> AnalysisOther("absent")]

\* line 237 in this description
ErrorResultShape ==
    ResultDict(TransList(<<>>), AnalysisDict(Summary(TRUE, 0, 0, 0, {}, <<>>)))

(***************************************************************************)
(* save_analysis_to_database                                               *)
(***************************************************************************)
\* lines 253-279 raise for this element (caught at line 283)
CoercionRaises(t) == ~t.isdict \/ t.amount = "huge"

\* line 279: str(trans.get('category', 'Other'))[:100]
RowCategory(t) == IF t.category = "absent" THEN "Other" ELSE t.category

\* lines 252-284.  o[i] is what the database does with the INSERT of element
\* i: "ok", "client_error" (the driver rejects the parameters, the
\* transaction stays usable) or "server_error" (the server rejects the
\* statement and the transaction is aborted: every later statement fails).
RECURSIVE InsertLoop(_, _, _, _)
InsertLoop(items, o, i, st) ==
    IF i > Len(items) THEN st
    ELSE IF CoercionRaises(items[i]) \/ st.aborted \/ o[i] = "client_error"
         THEN InsertLoop(items, o, i + 1, st)
    ELSE IF o[i] = "server_error"
         THEN InsertLoop(items, o, i + 1, [st EXCEPT !.aborted = TRUE])
    ELSE InsertLoop(items, o, i + 1,
                    [st EXCEPT !.rows = Append(@, RowCategory(items[i])),
                               !.successful_transactions = @ + 1])

\* line 287: the categories of the elements that carry one
ReportedCategories(items) ==
    { items[i].category : i \in { k \in 1..Len(items) : items[k].category # "absent" } }

SaveRaises == [raised |-> TRUE, rows |-> <<>>, summary |-> NullSummary]

\* Variant of save_analysis_to_database that commits the rows without the
\* UPDATE of analysis_summary.
save_analysis_to_database_NoSummary(r, o) ==
    IF r.kind # "dict" \/ r.transactions.kind \in {"null", "scalar"} THEN SaveRaises
    ELSE LET items == r.transactions.items
             st == InsertLoop(items, o, 1,
                              [rows |-> <<>>, aborted |-> FALSE, successful_transactions |-> 0])
         IN  IF r.analysis.kind = "nondict" \/ st.aborted
                  \/ \E i \in 1..Len(items) : ~items[i].isdict
             THEN SaveRaises
             ELSE [ raised |-> FALSE, rows |-> st.rows, summary |-> NullSummary ]

\* save_analysis_to_database(conn, statement_id, analysis_result, user_id)
\* with the database answering the INSERTs as o: whether it raises (after
\* rollback), and otherwise the rows and the summary it commits
save_analysis_to_database(r, o) ==
    IF r.kind # "dict" \/ r.transactions.kind \in {"null", "scalar"} THEN SaveRaises
    ELSE LET items == r.transactions.items
             st == InsertLoop(items, o, 1,
                              [rows |-> <<>>, aborted |-> FALSE, successful_transactions |-> 0])
         IN  IF r.analysis.kind = "nondict" \/ st.aborted
                  \/ \E i \in 1..Len(items) : ~items[i].isdict
             THEN SaveRaises
             ELSE [ raised |-> FALSE, rows |-> st.rows,
                    summary |-> [r.analysis.summary EXCEPT
                                   !.null = FALSE,
                                   !.transaction_count = Len(items),
                                   !.categories = ReportedCategories(items)] ]

\* what the database may answer to the INSERT of each element: a failure
\* only for a value the code passed on without coercing it
InsertOutcomes(r) ==
    { o \in [1..Len(r.transactions.items) -> {"ok", "client_error", "server_error"}] :
        \A i \in 1..Len(r.transactions.items) :
            o[i] # "ok" => (r.transactions.items[i].isdict
                            /\ r.transactions.items[i].date = "nonstr") }

(***************************************************************************)
(* process_s3_upload                                                       *)
(***************************************************************************)
FallbackUser == "default_user"

\* Variant of ResolveUser that takes the second segment of any key.
ResolveUser_AnyPrefix(key, meta) ==
    LET from_path == IF Len(key) >= 2 THEN key[2] ELSE ""
    IN  IF meta # "" THEN meta
        ELSE IF from_path # "" THEN from_path
        ELSE FallbackUser

\* lines 304-321.  meta is the object's user-id metadata, "" when it is
\* missing or head_object raised; key is the storage key split at "/".
ResolveUser(key, meta) ==
    LET from_path == IF Len(key) >= 2 /\ key[1] = "statements" THEN key[2] ELSE ""
    IN  IF meta # "" THEN meta
        ELSE IF from_path # "" THEN from_path
        ELSE FallbackUser

\* lines 307-312: response['Metadata'].get('user-id'), "" standing for None
\* and for head_object raising.  metadata is a function from field names to
\* values.
HeadUserId(metadata, head_ok) ==
    IF head_ok /\ "user-id" \in DOMAIN metadata THEN metadata["user-id"] ELSE ""

(***************************************************************************)
(* The web front-end: the upload route                                     *)
(***************************************************************************)
\* generate_statement_key(user_id, filename), as path segments with the
\* file name spelled out in characters.  base is
\* splitext(secure_filename(filename))[0]; ts stands for the 14 digits of
\* the timestamp, unique for the 8 hexadecimal digits and "s" for the
\* default base "statement".
generate_statement_key(user_id, base, ts, unique) ==
    << "statements", user_id,
       (IF base = <<>> THEN <<"s">> ELSE base) \o <<"-", ts, "-", unique, ".", "p", "d", "f">> >>

\* the object the upload route stores for the logged-in user: its key, its
\* metadata and who uploaded it
upload(user_id, base, ts, unique) ==
    [ key |-> generate_statement_key(user_id, base, ts, unique),
      metadata |-> [f \in {"user_id"} |-> user_id],
      by |-> user_id ]

(***************************************************************************)
(* The web front-end: the dashboards route                                 *)
(***************************************************************************)
\* the code point of a character of a dashboard file name; the suffix
\* ".html" is kept in one piece and sorts as its first character
CharCode(c) ==
    CASE c = "-" -> 45
      [] c \in {".", ".html"} -> 46
      [] c \in {"0", "1", "2", "3", "4", "5", "6", "7", "8", "9"} ->
            48 + (CHOOSE d \in 0..9 : <<"0", "1", "2", "3", "4", "5", "6", "7", "8", "9">>[d + 1] = c)
      [] c = "a" -> 97
      [] c = "b" -> 98
      [] c = "f" -> 102
      [] OTHER -> 115

\* a sorts strictly before b in the order of the storage listing
RECURSIVE LexLess(_, _)
LexLess(a, b) ==
    IF b = <<>> THEN FALSE
    ELSE IF a = <<>> THEN TRUE
    ELSE IF CharCode(Head(a)) # CharCode(Head(b)) THEN CharCode(Head(a)) < CharCode(Head(b))
    ELSE LexLess(Tail(a), Tail(b))

\* list_objects_v2: the keys in ascending order
RECURSIVE ListKeys(_)
ListKeys(keys) ==
    IF keys = {} THEN <<>>
    ELSE LET k == CHOOSE x \in keys : \A y \in keys \ {x} : LexLess(x[3], y[3])
         IN  <<k>> \o ListKeys(keys \ {k})

RECURSIVE Reversed(_)
Reversed(q) == IF q = <<>> THEN <<>> ELSE Append(Reversed(Tail(q)), Head(q))

\* the default of the parameter limit
ListLimit == 20

\* build_dashboard_presigned_urls(user_id) over the objects bk of the
\* bucket; a URL is represented by the key it grants access to
build_dashboard_presigned_urls(user_id, bk) ==
    Reversed(FirstN(ListKeys({ o.key : o \in { x \in bk : x.key[1] = "dashboard"
                                                          /\ x.key[2] = user_id } }),
                    ListLimit))

\* the row of table tb whose s3_key is key, 0 when there is none
RowOf(tb, key) ==
    IF \E i \in 1..Len(tb) : tb[i].s3_key = key
    THEN CHOOSE i \in 1..Len(tb) : tb[i].s3_key = key
    ELSE 0

\* Variant of UpsertStatement without the ON CONFLICT clause.
UpsertStatement_AlwaysInsert(tb, user, key, now) ==
    [ table |-> Append(tb, Row(user, key, "PROCESSING", now, NullSummary)),
      statement_id |-> Len(tb) + 1 ]

\* lines 330-338: INSERT ... ON CONFLICT (s3_key) DO UPDATE ... RETURNING
\* statement_id
UpsertStatement(tb, user, key, now) ==
    LET i == RowOf(tb, key)
    IN  IF i = 0
        THEN [ table |-> Append(tb, Row(user, key, "PROCESSING", now, NullSummary)),
               statement_id |-> Len(tb) + 1 ]
        ELSE [ table |-> [tb EXCEPT ![i].process_status = "PROCESSING", ![i].created_at = now],
               statement_id |-> i ]

\* the payload of lines 58-61
TriggerPayload(statement_id) ==
    [trigger_source |-> "bank_extract", statement_id |-> statement_id]

\* Variant of trigger_dashboard_creation without the except clause.
trigger_dashboard_creation_NoExcept(statement_id, invoke_ok) ==
    [ raised |-> ~invoke_ok,
      messages |-> IF invoke_ok THEN <<TriggerPayload(statement_id)>> ELSE <<>> ]

\* Variant of trigger_dashboard_creation that invokes twice.
trigger_dashboard_creation_Twice(statement_id, invoke_ok) ==
    [ raised |-> FALSE,
      messages |-> IF invoke_ok
                   THEN <<TriggerPayload(statement_id), TriggerPayload(statement_id)>>
                   ELSE <<>> ]

\* trigger_dashboard_creation(statement_id): whether it raises and the
\* messages it sends, when lambda_client.invoke succeeds (invoke_ok) or raises
trigger_dashboard_creation(statement_id, invoke_ok) ==
    [ raised |-> FALSE,
      messages |-> IF invoke_ok THEN <<TriggerPayload(statement_id)>> ELSE <<>> ]

\* a bag of rows, as a function from row to number of copies
AddRows(bag, sid, rows) ==
    LET new == { [statement_id |-> sid, category |-> rows[i]] : i \in 1..Len(rows) }
        n(x) == Cardinality({ i \in 1..Len(rows) : rows[i] = x.category })
    IN  [ x \in DOMAIN bag \cup new |->
            (IF x \in DOMAIN bag THEN bag[x] ELSE 0) + (IF x \in new THEN n(x) ELSE 0) ]

(***************************************************************************)
(* Input spaces                                                            *)
(***************************************************************************)
MaxJsonLen == 4

JsonAlphabet == {"{", "}", "[", "]", "1", "k"}

\* every string of at most n characters, JSON or not
ModelTexts(n) == UNION { [1..m -> JsonAlphabet] : m \in 0..n }

FenceTags == { <<>>, <<"j", "s", "o", "n">>, <<"j", "s">> }

FenceSeps == { <<>>, <<" ">> }

\* the model raises, or answers with a text of at most n characters, bare
\* or inside a fence
Responses(n) ==
    {ModelRaises}
      \cup { ModelAnswers(FALSE, <<>>, <<>>, j) : j \in ModelTexts(n) }
      \cup { ModelAnswers(TRUE, tg, sp, j) :
               tg \in FenceTags, sp \in FenceSeps, j \in ModelTexts(n) }

AnalyzeTexts == { Text(0, 0), Text(9, 0), Text(12, 4), Text(10, 0) }

NoDoc ==
    [ temp_ok |-> FALSE, download_ok |-> FALSE, file_size |-> 0, plumber |-> Raised, pypdf |-> Raised,
      ocr |-> Raised ]

(***************************************************************************)
(* SpecExtract: one call of textract_from_s3 on an arbitrary document      *)
(***************************************************************************)
AnalyzeIdle == text = EmptyText /\ response = ModelRaises /\ analysis = NotAnalyzed

ExtractIdle == doc = NoDoc /\ ex = NotRun

NotRendered == [done |-> FALSE, kind |-> "default", all_statements |-> <<>>, data |-> NoData]

Unresolved == "unresolved"

NotListed == [done |-> FALSE, user_id |-> "", urls |-> <<>>]

WebIdle == objects = <<>> /\ owner = Unresolved /\ listing = NotListed

NoEvent == Event("nondict", "absent", -1)

NotInvoked == [done |-> FALSE, statusCode |-> 0, db_calls |-> 0, html |-> "none", puts |-> {}]

VisualIdle == event = NoEvent /\ visual = NotInvoked /\ bucket = {}

NoRequest == dash_req = [statement_id |-> 0, fail |-> "none"] /\ dash = NotRendered

DashIdle == NoRequest /\ VisualIdle

NoSave == [inserted |-> 0, categories |-> {}]

NewProc ==
    [ pc |-> "idle", key |-> <<>>, user_id |-> "", statement_id |-> 0,
      extracted_text |-> EmptyText, text_ok |-> FALSE,
      analysis_result |-> ErrorResultShape, outcome |-> "none",
      invoke |-> "none", statusCode |-> 0, committed |-> "none" ]

Procs == {"p1", "p2"}

EmptyBag == [x \in {} |-> 0]

\* no event has been delivered to the Stage-2 lambda_handler
NotHandling == [kind |-> "none", records |-> <<>>, next |-> 0, pc |-> "idle", statusCode |-> 0]

PipeIdle ==
    proc = [p \in Procs |-> NewProc] /\ triggers = <<>> /\ runs = 0 /\ handler = NotHandling

\* the tables other than bank_statements, empty
DbRest == transactions = EmptyBag /\ last_save = <<>> /\ clock = 0

DbEmpty == statements = <<>> /\ DbRest

InitExtract == doc \in Docs /\ ex = NotRun /\ AnalyzeIdle /\ DashIdle /\ DbEmpty /\ PipeIdle /\ WebIdle

RunExtract ==
    /\ ex = NotRun
    /\ ex' = textract_from_s3(doc)
    /\ UNCHANGED <<doc, analyzeVars, dbVars, pipeVars, dashVars, webVars>>

NextExtract == RunExtract

SpecExtract == InitExtract /\ [][NextExtract]_vars

(***************************************************************************)
(* SpecAnalyze: one call of banktract_from_text on an arbitrary text, with *)
(* an arbitrary model behaviour                                            *)
(***************************************************************************)
\* Either the text varies and the model behaves in one of a few ways, or
\* the text is long enough and the model's behaviour varies.
InitAnalyze ==
    /\ \/ /\ text \in AnalyzeTexts
          /\ response \in { ModelRaises, ModelAnswers(FALSE, <<>>, <<>>, <<"{", "}">>),
                             ModelAnswers(FALSE, <<>>, <<>>, <<"}">>) }
       \/ /\ text = Text(MinTextLen, 0)
          /\ response \in Responses(MaxJsonLen)
    /\ analysis = NotAnalyzed
    /\ ExtractIdle /\ DashIdle /\ DbEmpty /\ PipeIdle /\ WebIdle

RunAnalyze ==
    /\ ~analysis.done
    /\ analysis' = [ done |-> TRUE,
                     result |-> banktract_from_text(text, response).result,
                     model_calls |-> banktract_from_text(text, response).model_calls ]
    /\ UNCHANGED <<extractVars, text, response, dbVars, pipeVars, dashVars, webVars>>

NextAnalyze == RunAnalyze

SpecAnalyze == InitAnalyze /\ [][NextAnalyze]_vars

(***************************************************************************)
(* SpecDash and SpecDashSelect: one call of create_dashboard_html against  *)
(* an arbitrary table.  SpecDash varies the summaries of two statements,   *)
(* SpecDashSelect the number, owners and ages of the statements.           *)
(***************************************************************************)
MaxAmount == 2

MaxStatements == 7

Users == {"u1", "u2"}

Categories == {"food", "rent", "pay"}

\* items with amounts of magnitude at most m; unreadable items are tried on
\* one category, any category would do
Entries(m) ==
    { Entry(c, "num", a) : c \in Categories, a \in (-m..m) \ {0} }
      \cup { Entry("food", k, 0) : k \in {"null", "nondict"} }

\* the items of a categories_amount mapping, with distinct keys
EntryLists1(m) == {<<>>} \cup { <<e>> : e \in Entries(m) }

EntryLists2(m) ==
    EntryLists1(m)
      \cup { <<p[1], p[2]>> :
               p \in { q \in Entries(m) \X Entries(m) : q[1].category # q[2].category } }

DashSummaries(lists) ==
    {NullSummary, Summary(FALSE, 0, 0, 1, {}, <<>>)}
      \cup { Summary(TRUE, 5, -3, Len(l), {}, l) : l \in lists }

DashTable(s1, s2) ==
    << Row("u1", "statements/u1/a.pdf", "COMPLETED", 1, s1),
       Row("u1", "statements/u1/b.pdf", "COMPLETED", 2, s2) >>

DashRequests ==
    { [statement_id |-> i, fail |-> "none"] : i \in 1..3 }
      \cup { [statement_id |-> 1, fail |-> f] : f \in DbFailures }

\* Two statements of one user.  Either the first is asked for and one of the
\* two has up to two categories, or the request and the database vary and
\* the summaries have no categories.
InitDash ==
    /\ \/ /\ \E s1 \in DashSummaries(EntryLists2(MaxAmount)),
                s2 \in DashSummaries(EntryLists1(MaxAmount)) :
               statements \in {DashTable(s1, s2), DashTable(s2, s1)}
          /\ dash_req = [statement_id |-> 1, fail |-> "none"]
       \/ /\ \E s1, s2 \in DashSummaries({<<>>}) : statements = DashTable(s1, s2)
          /\ dash_req \in DashRequests
    /\ dash = NotRendered
    /\ ExtractIdle /\ AnalyzeIdle /\ DbRest /\ PipeIdle /\ VisualIdle /\ WebIdle

RenderDashboard ==
    /\ ~dash.done
    /\ LET r == create_dashboard_html(statements, dash_req.statement_id, dash_req.fail)
       IN  dash' = [ done |-> TRUE, kind |-> r.kind, all_statements |-> r.all_statements,
                     data |-> r.data ]
    /\ UNCHANGED <<extractVars, analyzeVars, dbVars, pipeVars, webVars, dash_req, visualVars>>

NextDash == RenderDashboard

SpecDash == InitDash /\ [][NextDash]_vars

SimpleSummary == Summary(TRUE, 5, -3, 1, {"food"}, <<Entry("food", "num", -3)>>)

\* a statement of u1 with a summary, one of u1 without, one of u2 with
RowShapes == { <<"u1", TRUE>>, <<"u1", FALSE>>, <<"u2", TRUE>> }

\* a table of n statements; the newest is the first uploaded or the last
SelectTable(n, sh, asc) ==
    [i \in 1..n |->
        Row(sh[i][1], "statements/x.pdf", "COMPLETED", IF asc THEN i ELSE n + 1 - i,
            IF sh[i][2] THEN SimpleSummary ELSE NullSummary)]

InitDashSelect ==
    /\ \E n \in 0..MaxStatements :
         \E sh \in [1..n -> RowShapes], asc \in BOOLEAN : statements = SelectTable(n, sh, asc)
    /\ dash_req \in { [statement_id |-> i, fail |-> "none"] : i \in 1..(Len(statements) + 1) }
    /\ dash = NotRendered
    /\ ExtractIdle /\ AnalyzeIdle /\ DbRest /\ PipeIdle /\ VisualIdle /\ WebIdle

SpecDashSelect == InitDashSelect /\ [][NextDash]_vars

(***************************************************************************)
(* SpecOwner: the owner process_s3_upload resolves for one stored object,  *)
(* uploaded through the upload route or put into storage directly          *)
(***************************************************************************)
Segments == {"statements", "inbox", "u1", ""}

\* keys of one to three path segments
DirectKeys == UNION { [1..n -> Segments] : n \in 1..3 }

NoMetadata == [f \in {} |-> ""]

DirectMetadata ==
    { NoMetadata, [f \in {"user-id"} |-> "u2"], [f \in {"user-id"} |-> ""],
      [f \in {"user_id"} |-> "u2"] }

BaseNames == { <<>>, <<"a">>, <<"b">>, <<"a", "b">> }

WebObjects ==
    { upload(u, b, "1", x) : u \in {"u1", "u2"}, b \in BaseNames, x \in {"0", "f"} }

DirectObjects == { [key |-> k, metadata |-> md, by |-> ""] : k \in DirectKeys, md \in DirectMetadata }

InitOwner ==
    /\ \/ \E o \in WebObjects : objects = <<o>>
       \/ \E o \in DirectObjects : objects = <<o>>
    /\ owner = Unresolved
    /\ listing = NotListed
    /\ ExtractIdle /\ AnalyzeIdle /\ DashIdle /\ DbEmpty /\ PipeIdle

\* lines 304-321 of process_s3_upload for objects[1]
ResolveOwner ==
    /\ owner = Unresolved
    /\ \E head_ok \in BOOLEAN :
         owner' = ResolveUser(objects[1].key, HeadUserId(objects[1].metadata, head_ok))
    /\ UNCHANGED <<extractVars, analyzeVars, dbVars, pipeVars, dashVars, objects, listing>>

NextOwner == ResolveOwner

SpecOwner == InitOwner /\ [][NextOwner]_vars

(***************************************************************************)
(* SpecWeb: the dashboards query after a number of uploads through the     *)
(* upload route, each processed and rendered                               *)
(***************************************************************************)
MaxUploads == 3

Digits == <<"1", "2", "3", "4", "5", "6", "7", "8", "9">>

\* the dashboard the pipeline stores for a statement object
DashboardOf(o) ==
    [ key |-> build_dashboard_key(ResolveUser(o.key, HeadUserId(o.metadata, TRUE)), o.key),
      html |-> "rendered" ]

\* uploads at successive times
InitWeb ==
    /\ \E n \in 0..MaxUploads :
         \E u \in [1..n -> {"u1", "u2"}], b \in [1..n -> BaseNames], x \in [1..n -> {"0", "f"}] :
            objects = [i \in 1..n |-> upload(u[i], b[i], Digits[i], x[i])]
    /\ bucket = { DashboardOf(objects[i]) : i \in 1..Len(objects) }
    /\ owner = Unresolved
    /\ listing = NotListed
    /\ ExtractIdle /\ AnalyzeIdle /\ NoRequest /\ DbEmpty /\ PipeIdle
    /\ event = NoEvent /\ visual = NotInvoked

\* GET /dashboards/<user_id> by the logged-in user user_id
QueryDashboards ==
    /\ ~listing.done
    /\ \E u \in {"u1", "u2"} :
         listing' = [ done |-> TRUE, user_id |-> u,
                      urls |-> build_dashboard_presigned_urls(u, bucket) ]
    /\ UNCHANGED <<extractVars, analyzeVars, dbVars, pipeVars, dashVars, objects, owner>>

NextWeb == QueryDashboards

SpecWeb == InitWeb /\ [][NextWeb]_vars

(***************************************************************************)
(* SpecVisual: invocations of the Stage-3 lambda_handler with one event    *)
(* of any shape, against a table of two statements                         *)
(***************************************************************************)
MaxNameLen == 3

NameAlphabet == {"a", "."}

\* file names of at most n characters
FileNames(n) == UNION { [1..m -> NameAlphabet] : m \in 0..n }

Events ==
    {Event("nondict", "absent", -1)}
      \cup { Event("dict", ts, sid) :
               ts \in {"bank_extract", "other", "absent"}, sid \in -1..3 }

\* a statement of u1 under statements/u1/ and one of u2 at the top level
VisualTable(name, sm) ==
    << Row("u1", <<"statements", "u1", name>>, "COMPLETED", 1, sm),
       Row("u2", << <<"b", ".", "p">> >>, "COMPLETED", 2, SimpleSummary) >>

InitVisual ==
    /\ \E name \in FileNames(MaxNameLen), sm \in {NullSummary, SimpleSummary} :
         statements = VisualTable(name, sm)
    /\ event \in Events
    /\ visual = NotInvoked
    /\ bucket = {}
    /\ ExtractIdle /\ AnalyzeIdle /\ NoRequest /\ DbRest /\ PipeIdle /\ WebIdle

\* one invocation; put_object replaces the object stored under the key
RunVisual ==
    /\ \E fail \in DbFailures, lookup_ok \in BOOLEAN, put_ok \in BOOLEAN :
         LET r == visualize_lambda_handler(event, statements, fail, lookup_ok, put_ok)
         IN  /\ visual' = [ done |-> TRUE, statusCode |-> r.statusCode,
                            db_calls |-> r.db_calls, html |-> r.html, puts |-> r.puts ]
             /\ bucket' = { o \in bucket : \A n \in r.puts : n.key # o.key } \cup r.puts
    /\ UNCHANGED <<extractVars, analyzeVars, dbVars, pipeVars, webVars, dash_req, dash, event>>

NextVisual == RunVisual

SpecVisual == InitVisual /\ [][NextVisual]_vars

(***************************************************************************)
(* Spec: invocations of process_s3_upload against the database             *)
(***************************************************************************)
MaxRuns == 2

MaxTrans == 2

Keys == { <<"statements", "u1", "a.pdf">>, <<"inbox.pdf">> }

Metas == {"", "u2"}

RegisteredUsers == {"u1", "u2"}

\* documents that exercise each outcome of the extraction
PipelineDocs ==
    { d \in Docs :
        /\ d.temp_ok /\ d.download_ok /\ d.file_size = 1 /\ d.pypdf = Raised
        /\ d.plumber \in {Raised, Produced(Text(62, 2))}
        /\ d.ocr \in {Raised, Produced(Text(9, 0)), Produced(Text(20, 0))} }

TransShapes ==
    { Trans(TRUE, "iso", "num", "food"),
      Trans(TRUE, "iso", "text", "absent"),
      Trans(TRUE, "iso", "huge", "rent"),
      Trans(TRUE, "nonstr", "num", "food"),
      Trans(FALSE, "absent", "absent", "absent") }

ModelSummary == Summary(TRUE, 5, -3, 7, {"misc"}, <<Entry("food", "num", -3)>>)

\* every value banktract_from_text can return with at most m transactions
AnalysisResults(m) ==
    {ResultNonDict, ErrorResultShape}
      \cup { ResultDict(tx, an) :
               tx \in { TransList(l) : l \in UNION { [1..n -> TransShapes] : n \in 0..m } }
                        \cup { TransOther(k) : k \in {"absent", "null", "scalar"} },
               an \in { AnalysisDict(ModelSummary), AnalysisOther("absent"),
                        AnalysisOther("nondict") } }

\* the values the invocations of Spec receive: one of each kind
PipelineResults ==
    { ErrorResultShape,
      ResultNonDict,
      ResultDict(TransList(<<Trans(TRUE, "iso", "num", "food")>>), AnalysisDict(ModelSummary)),
      ResultDict(TransList(<<Trans(TRUE, "iso", "huge", "rent")>>), AnalysisOther("absent")),
      ResultDict(TransList(<<Trans(TRUE, "nonstr", "num", "food")>>), AnalysisDict(ModelSummary)) }

Init == ExtractIdle /\ AnalyzeIdle /\ DashIdle /\ DbEmpty /\ PipeIdle /\ WebIdle

Goto(p, pc) == [proc EXCEPT ![p].pc = pc]

\* analysis_result is not read after line 347
Leave(p, pc) == [proc EXCEPT ![p].pc = pc, ![p].analysis_result = ErrorResultShape]

\* entry: lines 298-322
Start(p) ==
    /\ proc[p].pc \in {"idle", "done"}
    /\ runs < MaxRuns
    /\ \E key \in Keys, meta \in Metas :
         proc' = [proc EXCEPT ![p] = [NewProc EXCEPT !.pc = "check_user", !.key = key,
                                                     !.user_id = ResolveUser(key, meta)]]
    /\ runs' = runs + 1
    /\ UNCHANGED <<extractVars, analyzeVars, dashVars, webVars, handler, dbVars, triggers>>

\* lines 325-326: an unknown user raises before any record is written
CheckUser(p) ==
    /\ proc[p].pc = "check_user"
    /\ proc' = IF proc[p].user_id \in RegisteredUsers
               THEN Goto(p, "upsert")
               ELSE [proc EXCEPT ![p].pc = "done", ![p].outcome = "raised",
                                 ![p].statusCode = 500]
    /\ UNCHANGED <<extractVars, analyzeVars, dashVars, webVars, handler, dbVars, triggers, runs>>

\* lines 330-339
Upsert(p) ==
    /\ proc[p].pc = "upsert"
    /\ LET u == UpsertStatement(statements, proc[p].user_id, proc[p].key, clock + 1)
       IN  /\ statements' = u.table
           /\ last_save' = IF Len(u.table) > Len(statements)
                           THEN Append(last_save, NoSave) ELSE last_save
           /\ proc' = [proc EXCEPT ![p].pc = "extract", ![p].statement_id = u.statement_id]
    /\ clock' = clock + 1
    /\ UNCHANGED <<extractVars, analyzeVars, dashVars, webVars, handler, transactions, triggers, runs>>

\* lines 342-344
Extract(p) ==
    /\ proc[p].pc = "extract"
    /\ \E d \in PipelineDocs :
         LET extracted_text == textract_from_s3(d).text
         IN  proc' = IF ~Truthy(extracted_text) \/ Strip(extracted_text).len < MinTextLen
                     THEN Goto(p, "except")
                     ELSE [proc EXCEPT ![p].pc = "analyze", ![p].text_ok = TRUE,
                                       ![p].extracted_text = extracted_text]
    /\ UNCHANGED <<extractVars, analyzeVars, dashVars, webVars, handler, dbVars, triggers, runs>>

\* line 346: whatever the model answers, banktract_from_text returns;
\* extracted_text is not read afterwards
Analyze(p) ==
    /\ proc[p].pc = "analyze"
    /\ \E r \in PipelineResults :
         proc' = [proc EXCEPT ![p].pc = "save", ![p].analysis_result = r,
                             ![p].extracted_text = EmptyText]
    /\ UNCHANGED <<extractVars, analyzeVars, dashVars, webVars, handler, dbVars, triggers, runs>>

\* Variant of Save in which every INSERT is committed as it is executed.
Save_Autocommit(p) ==
    /\ proc[p].pc = "save"
    /\ \E o \in InsertOutcomes(proc[p].analysis_result) :
         LET sv == save_analysis_to_database(proc[p].analysis_result, o)
             sid == proc[p].statement_id
             st == InsertLoop(proc[p].analysis_result.transactions.items, o, 1,
                              [rows |-> <<>>, aborted |-> FALSE, successful_transactions |-> 0])
         IN  /\ transactions' = AddRows(transactions, sid, st.rows)
             /\ IF sv.raised
                THEN /\ proc' = Goto(p, "except")
                     /\ UNCHANGED <<statements, last_save>>
                ELSE /\ proc' = Leave(p, "complete")
                     /\ statements' = [statements EXCEPT ![sid].analysis_summary = sv.summary]
                     /\ last_save' = [last_save EXCEPT
                                        ![sid] = [ inserted |-> Len(sv.rows),
                                                   categories |-> { sv.rows[i] : i \in 1..Len(sv.rows) } ]]
    /\ UNCHANGED <<extractVars, analyzeVars, dashVars, webVars, handler, clock, triggers, runs>>

\* line 347: the INSERTs and the UPDATE of the summary are one database
\* transaction, committed at line 291 or rolled back at line 295
Save(p) ==
    /\ proc[p].pc = "save"
    /\ \E o \in InsertOutcomes(proc[p].analysis_result) :
         LET sv == save_analysis_to_database(proc[p].analysis_result, o)
             sid == proc[p].statement_id
         IN  IF sv.raised
             THEN /\ proc' = Goto(p, "except")
                  /\ UNCHANGED <<statements, transactions, last_save>>
             ELSE /\ proc' = Leave(p, "complete")
                  /\ statements' = [statements EXCEPT ![sid].analysis_summary = sv.summary]
                  /\ transactions' = AddRows(transactions, sid, sv.rows)
                  /\ last_save' = [last_save EXCEPT
                                     ![sid] = [ inserted |-> Len(sv.rows),
                                                categories |-> { sv.rows[i] : i \in 1..Len(sv.rows) } ]]
    /\ UNCHANGED <<extractVars, analyzeVars, dashVars, webVars, handler, clock, triggers, runs>>

\* lines 350-351
Complete(p) ==
    /\ proc[p].pc = "complete"
    /\ statements' = [statements EXCEPT ![proc[p].statement_id].process_status = "COMPLETED"]
    /\ proc' = [proc EXCEPT ![p].pc = "trigger", ![p].committed = "COMPLETED"]
    /\ UNCHANGED <<extractVars, analyzeVars, dashVars, webVars, handler, transactions, last_save, clock,
                   triggers, runs>>

\* line 353, then the return of process_s3_upload to lambda_handler, which
\* answers 200 (line 393).  invoke records what became of lambda_client.invoke.
Trigger(p) ==
    /\ proc[p].pc = "trigger"
    /\ \E invoke_ok \in BOOLEAN :
         LET t == trigger_dashboard_creation(proc[p].statement_id, invoke_ok)
             how == IF invoke_ok THEN "sent" ELSE "failed"
         IN  /\ triggers' = triggers \o t.messages
             /\ proc' = IF t.raised
                        THEN [proc EXCEPT ![p].pc = "except", ![p].invoke = how]
                        ELSE [proc EXCEPT ![p].pc = "done", ![p].outcome = "returned",
                                          ![p].invoke = how, ![p].statusCode = 200]
    /\ UNCHANGED <<extractVars, analyzeVars, dashVars, webVars, handler, dbVars, runs>>

\* lines 355-369: the handler of any exception after the record exists;
\* the exception is raised again and lambda_handler answers 500 (line 397)
Except(p) ==
    /\ proc[p].pc = "except"
    /\ statements' = [statements EXCEPT ![proc[p].statement_id].process_status = "FAILED"]
    /\ proc' = [proc EXCEPT ![p].pc = "done", ![p].outcome = "raised", ![p].statusCode = 500,
                             ![p].committed = "FAILED",
                             ![p].analysis_result = ErrorResultShape]
    /\ UNCHANGED <<extractVars, analyzeVars, dashVars, webVars, handler, transactions, last_save, clock,
                   triggers, runs>>

Next ==
    \E p \in Procs :
        \/ Start(p)
        \/ CheckUser(p)
        \/ Upsert(p)
        \/ Extract(p)
        \/ Analyze(p)
        \/ Save(p)
        \/ Complete(p)
        \/ Trigger(p)
        \/ Except(p)

Spec == Init /\ [][Next]_vars

(***************************************************************************)
(* SpecSave: one invocation from the call of save_analysis_to_database on, *)
(* for every value banktract_from_text can return                          *)
(***************************************************************************)
InitSave ==
    /\ ExtractIdle /\ AnalyzeIdle /\ DashIdle /\ WebIdle
    /\ handler = NotHandling
    /\ statements = << Row("u1", <<"statements", "u1", "a.pdf">>, "PROCESSING", 1, NullSummary) >>
    /\ transactions = EmptyBag
    /\ last_save = <<NoSave>>
    /\ clock = 1
    /\ triggers = <<>>
    /\ runs = 1
    /\ \E r \in AnalysisResults(MaxTrans) :
         proc = [p \in Procs |->
                   IF p = "p1"
                   THEN [NewProc EXCEPT !.pc = "save", !.key = <<"statements", "u1", "a.pdf">>,
                                        !.user_id = "u1", !.statement_id = 1,
                                        !.text_ok = TRUE, !.analysis_result = r]
                   ELSE NewProc]

NextSave == \E p \in Procs : Save(p) \/ Complete(p) \/ Trigger(p) \/ Except(p)

SpecSave == InitSave /\ [][NextSave]_vars

(***************************************************************************)
(* SpecBatch: one invocation of the Stage-2 lambda_handler, with an upload *)
(* event carrying a batch of records or with a direct invocation.  The     *)
(* calls of process_s3_upload are made one after the other, as process p1. *)
(***************************************************************************)
MaxBatch == 2

BatchKeys == { <<"statements", "u1", "a.pdf">>, <<"statements", "u1", "b.pdf">> }

\* one element of event['Records'], its key as unquote_plus returns it
S3Record(src, key) == [eventSource |-> src, key |-> key]

BatchRecords == { S3Record(src, k) : src \in {"aws:s3", "other"}, k \in BatchKeys }

\* the events: a batch of at most n records, a direct invocation with
\* bucket and key (held as one record), or one without them
BatchEvents(n) ==
    { [kind |-> "records", records |-> r] :
        r \in UNION { [1..m -> BatchRecords] : m \in 0..n } }
      \cup { [kind |-> "direct", records |-> <<S3Record("aws:s3", k)>>] : k \in BatchKeys }
      \cup { [kind |-> "direct", records |-> <<>>] }

InitBatch ==
    /\ ExtractIdle /\ AnalyzeIdle /\ DashIdle /\ DbEmpty /\ WebIdle
    /\ proc = [p \in Procs |-> NewProc] /\ triggers = <<>> /\ runs = 0
    /\ \E e \in BatchEvents(MaxBatch) :
         handler = [ kind |-> e.kind, records |-> e.records, next |-> 1, pc |-> "loop",
                     statusCode |-> 0 ]

\* lines 377-393: the loop takes the next record and calls
\* process_s3_upload for it, skips a record of another source, and answers
\* 200 after the last record; a direct invocation without bucket or key
\* answers 400
HandlerNext ==
    /\ handler.pc = "loop"
    /\ IF handler.kind = "direct" /\ handler.records = <<>>
       THEN /\ handler' = [handler EXCEPT !.pc = "done", !.statusCode = 400]
            /\ UNCHANGED <<proc, runs>>
       ELSE IF handler.next > Len(handler.records)
       THEN /\ handler' = [handler EXCEPT !.pc = "done", !.statusCode = 200]
            /\ UNCHANGED <<proc, runs>>
       ELSE LET record == handler.records[handler.next]
            IN  IF record.eventSource # "aws:s3"
                THEN /\ handler' = [handler EXCEPT !.next = @ + 1]
                     /\ UNCHANGED <<proc, runs>>
                ELSE /\ \E meta \in Metas :
                          proc' = [proc EXCEPT
                                     !["p1"] = [NewProc EXCEPT
                                                  !.pc = "check_user", !.key = record.key,
                                                  !.user_id = ResolveUser(record.key, meta)]]
                     /\ runs' = runs + 1
                     /\ handler' = [handler EXCEPT !.pc = "in_call"]
    /\ UNCHANGED <<extractVars, analyzeVars, dashVars, webVars, dbVars, triggers>>

\* process_s3_upload comes back to lambda_handler: after a normal return
\* the loop goes on (line 379); an exception leaves the loop and the
\* handler answers 500 (lines 394-397)
HandlerReturn ==
    /\ handler.pc = "in_call"
    /\ proc["p1"].pc = "done"
    /\ handler' = IF proc["p1"].outcome = "raised"
                  THEN [handler EXCEPT !.pc = "done", !.statusCode = 500]
                  ELSE [handler EXCEPT !.pc = "loop", !.next = @ + 1]
    /\ UNCHANGED <<extractVars, analyzeVars, dashVars, webVars, dbVars, proc, triggers, runs>>

NextBatch ==
    \/ HandlerNext
    \/ HandlerReturn
    \/ CheckUser("p1")
    \/ Upsert("p1")
    \/ Extract("p1")
    \/ Analyze("p1")
    \/ Save("p1")
    \/ Complete("p1")
    \/ Trigger("p1")
    \/ Except("p1")

SpecBatch == InitBatch /\ [][NextBatch]_vars

\* the invocation runs to its end: nothing suspends a handler
SpecBatchFair == SpecBatch /\ WF_vars(NextBatch)

(***************************************************************************)
(* Properties of process_s3_upload and save_analysis_to_database           *)
(***************************************************************************)
\* C1: once save_analysis_to_database has committed for a statement, the
\* transaction_count of its summary equals the number of rows the call
\* inserted and committed, whatever the model reported and however many
\* transactions were skipped.
C1_CountEqualsInserted ==
    \A sid \in 1..Len(statements) :
        ~statements[sid].analysis_summary.null =>
            statements[sid].analysis_summary.transaction_count = last_save[sid].inserted

UniqueKeys ==
    \A i, j \in 1..Len(statements) : statements[i].s3_key = statements[j].s3_key => i = j

\* C4: there is at most one record per storage key; an upload for a key that
\* already has a record keeps the record's id, sets its status to
\* PROCESSING and refreshes created_at.
C4_UpsertKeepsOneRecord ==
    [][ /\ UniqueKeys'
        /\ \A p \in Procs :
             (proc[p].pc = "upsert" /\ proc'[p].pc = "extract"
                /\ RowOf(statements, proc[p].key) # 0) =>
                 LET i == RowOf(statements, proc[p].key)
                 IN  /\ Len(statements') = Len(statements)
                     /\ proc'[p].statement_id = i
                     /\ statements'[i].s3_key = proc[p].key
                     /\ statements'[i].process_status = "PROCESSING"
                     /\ statements'[i].created_at > statements[i].created_at
                     /\ \A q \in 1..Len(statements) : statements[q].created_at < statements'[i].created_at
      ]_vars

C4_Witness ==
    /\ Len(statements) = 1
    /\ statements[1].process_status = "PROCESSING"
    /\ statements[1].created_at = 2
    /\ ~statements[1].analysis_summary.null

\* the run passed the check of line 343
UsableText(p) == proc[p].text_ok

\* C5: in every run in which extraction produced usable text the status
\* ends as COMPLETED, whatever the model returns and whichever
\* transactions fail to coerce.
C5_OnlyExtractionFails ==
    \A p \in Procs :
        (proc[p].pc = "done" /\ UsableText(p)) =>
            statements[proc[p].statement_id].process_status = "COMPLETED"

\* the result has the outer shape the code expects: an object whose
\* transactions, if any, are a list and whose analysis, if any, is an object
OuterShapeOk(r) ==
    /\ r.kind = "dict"
    /\ r.transactions.kind \in {"list", "absent"}
    /\ r.analysis.kind \in {"dict", "absent"}

\* the elements that coerce and that the database accepts for certain
CleanElements(r) ==
    { i \in 1..Len(r.transactions.items) :
        LET t == r.transactions.items[i]
        IN  t.isdict /\ t.amount # "huge" /\ t.date # "nonstr" }

\* C13: in save_analysis_to_database an element of the transactions list
\* that cannot be coerced or inserted is skipped and does not abort the
\* batch: every other element is inserted, the summary is written and the
\* call does not raise, for every element shape the model can return.
C13_SkipDoesNotAbort ==
    [][ \A p \in Procs :
          (proc[p].pc = "save" /\ proc'[p].pc # "save"
             /\ OuterShapeOk(proc[p].analysis_result)) =>
              /\ proc'[p].pc = "complete"
              /\ ~statements'[proc[p].statement_id].analysis_summary.null
              /\ last_save'[proc[p].statement_id].inserted
                    >= Cardinality(CleanElements(proc[p].analysis_result))
      ]_vars

\* C14: after save_analysis_to_database commits, the categories field of
\* the persisted summary is exactly the set of distinct category values of
\* the rows inserted for that run, "Other" included for a transaction
\* without category and the categories of skipped transactions excluded.
C14_CategoriesOfInsertedRows ==
    \A sid \in 1..Len(statements) :
        ~statements[sid].analysis_summary.null =>
            statements[sid].analysis_summary.categories = last_save[sid].categories

\* C20: within one run of process_s3_upload the Stage-3 trigger message is
\* sent at most once, only after the run has committed the status
\* COMPLETED, never in a run that ends with status FAILED, and it carries
\* the id of the statement the run completed.
C20_TriggerOnceAfterCompleted ==
    /\ [](\A p \in Procs :
            proc[p].invoke = "sent" =>
                (proc[p].outcome = "returned" /\ proc[p].committed = "COMPLETED"))
    /\ [][ triggers' # triggers =>
             \E p \in Procs :
                 /\ proc[p].pc = "trigger" /\ proc[p].invoke = "none"
                 /\ proc[p].committed = "COMPLETED"
                 /\ triggers' = Append(triggers, [ trigger_source |-> "bank_extract",
                                                   statement_id |-> proc[p].statement_id ])
                 /\ proc'[p].pc = "done" /\ proc'[p].invoke = "sent"
                 /\ \A q \in Procs \ {p} : proc'[q] = proc[q]
       ]_vars

C20_Witness ==
    /\ Len(triggers) = 2
    /\ \E p \in Procs :
         /\ proc[p].pc = "done" /\ proc[p].invoke = "sent"
         /\ triggers[2].statement_id = proc[p].statement_id
         /\ statements[proc[p].statement_id].process_status = "COMPLETED"

\* C19: when all three extraction strategies fail or produce fewer than 50
\* characters, the run reports extraction failure: it never gets to invoke
\* the model, to insert rows, to write a summary or to send the trigger.
\* The text a run holds when it is about to call banktract_from_text is
\* the one textract_from_s3 returned; it is shorter than 50 characters
\* exactly when no strategy produced 50.
C19_InsufficientExtractionFails ==
    \A p \in Procs :
        proc[p].pc = "analyze" => ~Insufficient(proc[p].extracted_text)

\* C12: a failure to send the Stage-3 trigger never propagates: when
\* lambda_client.invoke raises, process_s3_upload returns normally, the
\* run leaves the COMPLETED status it has written untouched and the entry
\* point answers 200.
C12_TriggerFailureSwallowed ==
    [][ \A p \in Procs :
          (proc[p].pc = "trigger" /\ proc'[p].pc # "trigger" /\ proc'[p].invoke = "failed") =>
              /\ proc'[p].pc = "done"
              /\ proc'[p].outcome = "returned"
              /\ proc'[p].statusCode = 200
              /\ statements' = statements
              /\ triggers' = triggers
      ]_vars

C12_Witness ==
    \E p \in Procs :
        /\ proc[p].pc = "done" /\ proc[p].invoke = "failed"
        /\ proc[p].statusCode = 200
        /\ statements[proc[p].statement_id].process_status = "COMPLETED"

\* number of committed rows of the transactions table for statement sid
RECURSIVE CountRows(_, _)
CountRows(bag, rows) ==
    IF rows = {} THEN 0
    ELSE LET x == CHOOSE y \in rows : TRUE
         IN  bag[x] + CountRows(bag, rows \ {x})

StoredRows(sid) ==
    CountRows(transactions, { x \in DOMAIN transactions : x.statement_id = sid })

\* the runs so far were made one after the other, by the same process
Sequential == proc["p2"] = NewProc

\* the run of p has not committed a summary of its own
BeforeOwnSave(p) ==
    \/ proc[p].pc \in {"extract", "analyze", "save", "except"}
    \/ proc[p].pc = "done" /\ proc[p].committed = "FAILED"

\* C22: processing the same storage key a second time does not accumulate
\* rows: the rows stored for a statement are exactly the rows inserted by
\* the latest run that committed a save for it, and while a later run has
\* the record in PROCESSING or has marked it FAILED without saving, the
\* record shows no summary of an earlier run.
C22_RerunDoesNotAccumulate ==
    Sequential =>
        /\ \A sid \in 1..Len(statements) : StoredRows(sid) = last_save[sid].inserted
        /\ BeforeOwnSave("p1") =>
               statements[proc["p1"].statement_id].analysis_summary.null

\* C23: under every interleaving of two invocations for the same storage
\* key, a status COMPLETED committed by one invocation is never
\* overwritten with FAILED by the other.  (A later run made after the
\* first one finished sets PROCESSING first; only an overlapping run can
\* take the record from COMPLETED to FAILED in one step.)
C23_CompletedNotOverwritten ==
    [][ \A sid \in 1..Len(statements) :
          ~ /\ statements[sid].process_status = "COMPLETED"
            /\ statements'[sid].process_status = "FAILED"
      ]_vars

\* C25: in every reachable state a record whose status is COMPLETED has a
\* non-null analysis_summary, with its transaction_count and categories:
\* a run sets COMPLETED only once the summary it wrote is committed.
C25_CompletedHasSummary ==
    /\ [](\A sid \in 1..Len(statements) :
            statements[sid].process_status = "COMPLETED" =>
                /\ ~statements[sid].analysis_summary.null
                /\ statements[sid].analysis_summary.transaction_count \in Nat
                /\ statements[sid].analysis_summary.categories \subseteq Categories \cup {"Other"})
    /\ [][ \A sid \in 1..Len(statements) :
             (statements'[sid].process_status = "COMPLETED"
                /\ statements[sid].process_status # "COMPLETED") =>
                 \E p \in Procs :
                     /\ proc[p].pc = "complete" /\ proc[p].statement_id = sid
                     /\ ~statements[sid].analysis_summary.null
                     /\ statements'[sid].analysis_summary = statements[sid].analysis_summary
       ]_vars

C25_Witness ==
    \E sid \in 1..Len(statements) :
        /\ statements[sid].process_status = "COMPLETED"
        /\ statements[sid].analysis_summary.transaction_count = 1
        /\ statements[sid].analysis_summary.categories = {"food"}
        /\ \E p \in Procs : proc[p].pc = "trigger" /\ proc[p].statement_id = sid

\* the elements of the list that an INSERT is executed for
Insertable(r) ==
    { i \in 1..Len(r.transactions.items) : ~CoercionRaises(r.transactions.items[i]) }

\* C26: persisting an analysis is all-or-nothing.  When
\* save_analysis_to_database raises, no row inserted during the call
\* remains committed and the analysis_summary is unchanged; the rows and
\* the summary of a run become visible together, in the one step that
\* commits them.
C26_SaveAllOrNothing ==
    [][ /\ \A p \in Procs :
             (proc[p].pc = "save" /\ proc'[p].pc = "except") =>
                 /\ transactions' = transactions
                 /\ statements' = statements
        /\ \A sid \in 1..Len(statements) :
             (CountRows(transactions', { x \in DOMAIN transactions' : x.statement_id = sid })
                 # StoredRows(sid)) =>
                 \E p \in Procs :
                     /\ proc[p].pc = "save" /\ proc'[p].pc = "complete"
                     /\ proc[p].statement_id = sid
                     /\ ~statements'[sid].analysis_summary.null
                     /\ statements'[sid].analysis_summary.transaction_count
                          = Len(proc[p].analysis_result.transactions.items)
                     /\ last_save'[sid].inserted
                          = CountRows(transactions', { x \in DOMAIN transactions' : x.statement_id = sid })
                            - StoredRows(sid)
      ]_vars

\* a call that executed an INSERT and then raised has left nothing behind
C26_Witness ==
    \E p \in Procs :
        /\ proc[p].pc = "except"
        /\ Insertable(proc[p].analysis_result) # {}
        /\ StoredRows(proc[p].statement_id) = 0
        /\ statements[proc[p].statement_id].analysis_summary.null

\* the record of key has reached a final status
Processed(key) ==
    \E sid \in 1..Len(statements) :
        /\ statements[sid].s3_key = key
        /\ statements[sid].process_status \in {"COMPLETED", "FAILED"}

\* C21: an extraction failure is fatal to its own document only: when the
\* upload event carries a batch of records, every storage record of the
\* batch is eventually processed (its statement reaches COMPLETED or
\* FAILED), even if an earlier record of the batch failed.
C21_EveryRecordProcessed ==
    <>(\A i \in 1..Len(handler.records) :
          handler.records[i].eventSource = "aws:s3" => Processed(handler.records[i].key))

(***************************************************************************)
(* Properties of the extraction cascade                                    *)
(***************************************************************************)
Ran == ex # NotRun

Invoked(name) == \E i \in 1..Len(ex.calls) : ex.calls[i] = name

\* the local copy was made and filled
Downloaded == doc.temp_ok /\ doc.download_ok

\* C2: the text textract_from_s3 returns is empty or has at least 50
\* characters after trimming, for every document and every combination of
\* strategy outcomes.
C2_ThresholdNeverBypassed ==
    Ran => (ex.text.len = 0 \/ Strip(ex.text).len >= SufficiencyThreshold)

\* C3: for a downloaded document of non-zero size at most 20 MB, OCR is
\* invoked only after pdfplumber and then pypdf have run and each returned
\* fewer than 50 trimmed characters; above 20 MB OCR is invoked directly and
\* no local strategy runs.
C3_OcrOnlyAfterLocal ==
    (Ran /\ Downloaded) =>
        /\ (doc.file_size > 0 /\ doc.file_size <= SizeCeiling /\ Invoked("textract")) =>
              /\ ex.calls = <<"pdfplumber", "pypdf", "textract">>
              /\ Strip(extract_with_pdfplumber(doc.plumber)).len < SufficiencyThreshold
              /\ Strip(extract_with_pypdf(doc.pypdf)).len < SufficiencyThreshold
        /\ (doc.file_size > SizeCeiling) => ex.calls = <<"textract">>

C3_Witness ==
    /\ Ran /\ Downloaded /\ doc.file_size = SizeCeiling
    /\ ex.calls = <<"pdfplumber", "pypdf", "textract">>
    /\ Strip(ex.text).len >= SufficiencyThreshold

Rendered == dash.done /\ dash.kind = "rendered"

Target == dash_req.statement_id

\* the other statements create_dashboard_html may draw from
Eligible ==
    { i \in 1..Len(statements) :
        /\ i # Target
        /\ statements[i].user_id = statements[Target].user_id
        /\ ~statements[i].analysis_summary.null }

OthersUsed == { dash.all_statements[i] : i \in 2..Len(dash.all_statements) }

\* C6: the dashboard aggregates the target statement plus at most the 4
\* most recent other summaries of the same owner (never more than 5
\* statements), target first, the others newest first.
C6_TargetPlusFourNewest ==
    Rendered =>
        /\ Len(dash.all_statements) <= 5
        /\ dash.all_statements[1] = Target
        /\ OthersUsed \subseteq Eligible
        /\ Cardinality(OthersUsed) = Len(dash.all_statements) - 1
        /\ Cardinality(OthersUsed) = (IF Cardinality(Eligible) < 4 THEN Cardinality(Eligible) ELSE 4)
        /\ \A i, j \in 2..Len(dash.all_statements) :
              i < j => statements[dash.all_statements[i]].created_at
                         > statements[dash.all_statements[j]].created_at
        /\ \A i \in OthersUsed, j \in Eligible \ OthersUsed :
              statements[i].created_at > statements[j].created_at

\* C7: adjacent entries of the category series are in non-increasing order
\* of absolute aggregated amount, and categories of equal absolute amount
\* appear in the order in which they were first encountered.
EncounterOrder ==
    Accumulate(NoData, [i \in 1..Len(dash.all_statements) |->
                          statements[dash.all_statements[i]].analysis_summary]).category_totals

C7_CategoriesByAbsAmount ==
    Rendered =>
        LET cd == dash.data.categories_data
        IN  /\ \A i \in 1..(Len(cd) - 1) : Abs(cd[i].amount) >= Abs(cd[i + 1].amount)
            /\ \A i, j \in 1..Len(cd) :
                  (i < j /\ Abs(cd[i].amount) = Abs(cd[j].amount)) =>
                      IndexOf(EncounterOrder, cd[i].category)
                        < IndexOf(EncounterOrder, cd[j].category)
            /\ Len(cd) = Len(EncounterOrder)
            /\ \A i \in 1..Len(cd) : cd[i] = EncounterOrder[IndexOf(EncounterOrder, cd[i].category)]

C7_Witness ==
    /\ Rendered
    /\ Len(dash.data.categories_data) = 3
    /\ dash.data.categories_data[1].amount = -2
    /\ dash.data.categories_data[2].amount = 2
    /\ dash.data.categories_data[3].amount = 1

\* a statement used by the call whose summary cannot be read
UnreadableSummary(i) ==
    LET sm == statements[i].analysis_summary
    IN  ~sm.null /\ (~sm.totals_ok \/ \E k \in 1..Len(sm.categories_amount) :
                                           sm.categories_amount[k].kind = "nondict")

TargetMissing == Target \notin 1..Len(statements) \/ statements[Target].analysis_summary.null

\* C8 as stated: create_dashboard_html never raises, and whenever the target
\* does not exist or has no summary, or a database lookup, a summary parse
\* or a template step fails, it returns the default error document.
C8_DefaultOnAnyFailure ==
    dash.done =>
        /\ dash.kind # "raised"
        /\ (TargetMissing \/ dash_req.fail # "none") => dash.kind = "default"
        /\ (~TargetMissing /\ dash_req.fail = "none"
              /\ \E i \in {Target} \cup Eligible : UnreadableSummary(i)) => dash.kind = "default"

\* C8 amended: create_dashboard_html never raises; it returns the default
\* error document when the target does not exist or has no summary, when a
\* database lookup fails or when the rendering step fails; a summary that
\* cannot be parsed is skipped and the dashboard is rendered without it.
C8_NeverRaises ==
    dash.done =>
        /\ dash.kind \in {"default", "rendered"}
        /\ (TargetMissing \/ dash_req.fail # "none") => dash.kind = "default"
        /\ (~TargetMissing /\ dash_req.fail = "none") =>
              LET d == extract_data_from_statements(
                         [i \in 1..Len(<<Target>> \o OtherStatements(statements, Target)) |->
                            statements[(<<Target>> \o OtherStatements(statements, Target))[i]]
                              .analysis_summary])
              IN  /\ d.raised => dash.kind = "default"
                  /\ ~d.raised => dash.kind = "rendered"

C8_Witness ==
    /\ dash.done /\ dash.kind = "default"
    /\ dash_req.fail = "query2"
    /\ ~TargetMissing

(***************************************************************************)
(* Properties of the owner resolution                                      *)
(***************************************************************************)
Resolved == owner # Unresolved

\* the object carries a non-empty metadata field user-id
HasUserIdField ==
    "user-id" \in DOMAIN objects[1].metadata /\ objects[1].metadata["user-id"] # ""

HasSecondSegment == Len(objects[1].key) >= 2 /\ objects[1].key[2] # ""

UploadsOf(u) == { i \in 1..Len(objects) : objects[i].by = u }

\* position of the artifact of upload i in the answer, 0 when missing
PositionOf(i) ==
    IF \E k \in 1..Len(listing.urls) : listing.urls[k] = DashboardOf(objects[i]).key
    THEN CHOOSE k \in 1..Len(listing.urls) : listing.urls[k] = DashboardOf(objects[i]).key
    ELSE 0

\* C18: the dashboards query returns the URLs of the user's artifacts
\* newest first: of any two artifacts of the user, the one rendered from
\* the more recently uploaded statement comes earlier, whatever the base
\* names of the uploaded files are.
C18_NewestFirst ==
    listing.done =>
        /\ Len(listing.urls) = Cardinality(UploadsOf(listing.user_id))
        /\ \A i, j \in UploadsOf(listing.user_id) :
              i < j => (PositionOf(j) > 0 /\ PositionOf(i) > 0 /\ PositionOf(j) < PositionOf(i))

(***************************************************************************)
(* Properties of the Stage-3 entry point                                   *)
(***************************************************************************)
\* the shape {trigger_source: "bank_extract", statement_id}
AcceptedShape(ev) ==
    ev.kind = "dict" /\ ev.trigger_source = "bank_extract" /\ ev.statement_id # -1

\* C24: the Stage-3 entry point answers 200 only if the rendered document
\* was written to storage at the dashboard key: when the storage write
\* fails the response is not a success response.
C24_SuccessOnlyIfStored ==
    (visual.done /\ visual.statusCode = 200) =>
        \E o \in bucket :
            /\ o \in visual.puts
            /\ o.html = visual.html
            /\ \E sid \in 1..Len(statements) :
                 /\ event.statement_id = sid
                 /\ o.key = build_dashboard_key(statements[sid].user_id, statements[sid].s3_key)

\* C15: the Stage-3 entry point renders and stores a dashboard only for an
\* event of the accepted shape; an event of any other shape is answered
\* with code 400 and causes no database read and no storage write; and
\* the payload trigger_dashboard_creation sends has the accepted shape.
C15_OnlyAcceptedShape ==
    visual.done =>
        /\ (visual.html # "none" \/ visual.puts # {}) => AcceptedShape(event)
        /\ ~AcceptedShape(event) =>
              (visual.statusCode = 400 /\ visual.db_calls = 0 /\ visual.puts = {})
        /\ \A sid \in 1..Len(statements) :
              AcceptedShape(EventOf(trigger_dashboard_creation(sid, TRUE).messages[1]))

\* the file name has an extension: a dot with some other character before it
HasExtension(name) ==
    \E i \in 2..Len(name) : name[i] = "." /\ \E j \in 1..(i - 1) : name[j] # "."

\* the base the key is built from: the file name without its extension,
\* "statement" for an empty one
ExpectedBase(name) ==
    LET last == CHOOSE i \in 1..Len(name) :
                    name[i] = "." /\ \A j \in (i + 1)..Len(name) : name[j] # "."
        stem == IF HasExtension(name) THEN SubSeq(name, 1, last - 1) ELSE name
    IN  IF stem = <<>> THEN <<"statement">> ELSE stem

\* the statement the event names
Named == statements[event.statement_id]

Stored == visual.done /\ visual.puts # {}

\* C16 as stated: the key under which a dashboard is stored is exactly
\* {owner_id}/{base}.html, and every run for the same statement writes to
\* the same key.
C16_KeyIsOwnerBase ==
    Stored =>
        /\ \A o \in visual.puts :
              o.key = << Named.user_id,
                         ExpectedBase(Named.s3_key[Len(Named.s3_key)]) \o <<".html">> >>
        /\ Cardinality(bucket) = 1

\* C16 amended: the key is exactly dashboard/{owner_id}/{base}.html, where
\* base is the basename of the source key without its extension (leading
\* dots of the basename do not start an extension), or "statement" when the
\* basename is empty; every run for the same statement writes to the same
\* key, so storage holds one object for it.
C16_KeyIsDashboardOwnerBase ==
    Stored =>
        /\ \A o \in visual.puts :
              o.key = << "dashboard", Named.user_id,
                         ExpectedBase(Named.s3_key[Len(Named.s3_key)]) \o <<".html">> >>
        /\ Cardinality(bucket) = 1

C16_Witness ==
    /\ Stored
    /\ Named.s3_key = <<"statements", "u1", <<".", "a", ".">>>>
    /\ bucket = {[key |-> <<"dashboard", "u1", <<".", "a", ".html">>>>, html |-> "default"]}

(***************************************************************************)
(* Properties of the analyzer                                              *)
(***************************************************************************)
IsJson(s) == json_loads(s).ok

Unfenced(r) == ModelAnswers(FALSE, <<>>, <<>>, r.j)

FencedJson == analysis.done /\ ~response.raises /\ response.fenced /\ IsJson(response.j)

\* C9: for every JSON text J, the result obtained from J inside a
\* markdown fence (with or without a language tag) is identical to the
\* result obtained from J alone.
C9_FenceEquivalence ==
    FencedJson => analysis.result = banktract_from_text(text, Unfenced(response)).result

\* C10: for a text that is empty or shorter than 10 characters
\* banktract_from_text returns the empty-but-valid result and makes no call
\* to the model.
C10_ShortTextNoModelCall ==
    (analysis.done /\ text.len < MinTextLen) =>
        /\ analysis.model_calls = 0
        /\ analysis.result =
              [ transactions |-> <<>>,
                analysis |-> [ total_income |-> 0, total_expense |-> 0, net_amount |-> 0,
                               categories |-> <<>> ] ]

C10_Witness ==
    /\ analysis.done /\ text.len > 0 /\ text.len < MinTextLen
    /\ ~response.raises /\ IsJson(response.j)
    /\ analysis.model_calls = 0

====
